---------------------------- MODULE Spec2Model ----------------------------
(***************************************************************************)
(* Model of lib/ansible/runner/connection_plugins/paramiko_ssh.py:         *)
(* the process-wide connection caches, Connection.connect / close, the     *)
(* persistence of newly accepted host keys to ~/.ssh/known_hosts under the *)
(* flock on ~/.ssh/.known_hosts.lock, and the sudo prompt loop of          *)
(* Connection.exec_command.                                                *)
(*                                                                         *)
(* Strings that the code concatenates (host, user, cache key) are          *)
(* sequences of tokens; "__" is the separator token of _cache_key.         *)
(* paramiko's HostKeys (a list of entries behaving like a dictionary       *)
(* hostname -> keytype -> key) is modelled by the operators keys, lookup,  *)
(* add, SetItem, update and load, at the places the source calls them.     *)
(***************************************************************************)
EXTENDS Naturals, Integers, Sequences, FiniteSets, TLC

(***************************************************************************)
(* Bounds of the model.                                                    *)
(***************************************************************************)
MaxSessions == 2      \* SSHClient objects built in one run
MaxFile == 2          \* lines of known_hosts at the start
MaxStream == 3        \* bytes the remote side sends before the secret
MaxChannels == 2      \* sftp channels opened in a run

(***************************************************************************)
(* The world: OS processes, Connection objects, hosts, users.              *)
(***************************************************************************)
Procs == {"p1", "p2"}
Conns == {"c1", "c2", "c3"}
ProcOf(c) == IF c = "c3" THEN "p2" ELSE "p1"

HostA == <<"a">>
HostAB == <<"a", "__", "b">>
UserC == <<"c">>
UserBC == <<"b", "__", "c">>
Targets == {<<HostA, UserBC>>, <<HostAB, UserC>>, <<HostA, UserC>>}
Hosts == {t[1] : t \in Targets}

NoSession == 0
NoLock == "none"
NoChannel == 0

\* the key a server presents in the handshake (its type and its material)
ServerKey(h) == [kt |-> "ssh-rsa", k |-> "k1"]

\* lines a known_hosts file may hold at the start: "<hostname> <keytype> <base64>"
FileLines ==
    { [h |-> HostA, kt |-> "ssh-rsa", k |-> "k1"],
      [h |-> HostA, kt |-> "ssh-rsa", k |-> "k0"],
      [h |-> HostA, kt |-> "ssh-dss", k |-> "k1"],
      [h |-> HostAB, kt |-> "ssh-rsa", k |-> "k1"] }

VARIABLES
    live,           \* the Connection objects the run constructs
    host, user,     \* Connection.host, Connection.user
    ssh,            \* Connection.ssh: a session id, NoSession for None
    keyfile,        \* whether the attribute Connection.keyfile is set
    sshCache,       \* SSH_CONNECTION_CACHE of each process: key -> session id
    sess,           \* the SSHClient objects built so far, by session id
    file,           \* lines of ~/.ssh/known_hosts
    hkc,            \* C.HOST_KEY_CHECKING
    lockHolder,     \* Connection holding the flock on .known_hosts.lock
    pc,             \* position of each Connection's worker
    ret,            \* <<Connection, operation, outcome>> of the last call that ended
    fresh,          \* history: connect() returned since the key's last close()
    since,          \* history: sessions built for a key since its last close()
    file0,          \* history: known_hosts at the start
    persist,        \* history: the last reload-merge-write of close()
    sftp,           \* self.sftp of each Connection: a channel number or NoChannel
    sftpCache,      \* SFTP_CONNECTION_CACHE of each process: key -> channel
    chans,          \* every sftp channel opened so far, in order
    run,            \* exec_command: runner.sudo, sudoable, runner.sudo_pass
    remote,         \* exec_command: bytes the remote side has still to send
    ending,         \* exec_command: what the remote side does after them
    scan,           \* exec_command: where the call is
    sudo_output,    \* exec_command: the local sudo_output
    pty,            \* exec_command: whether chan.get_pty was called
    reads,          \* exec_command: calls of chan.recv
    sent,           \* exec_command: what chan.sendall was given
    raised          \* exec_command: the error message raised

xferVars == <<sftp, sftpCache, chans>>

connVars == <<live, host, user, ssh, keyfile, sshCache, sess, file, hkc,
              lockHolder, pc, ret, fresh, since, file0, persist, xferVars>>

execVars == <<run, remote, ending, scan, sudo_output, pty, reads, sent, raised>>

vars == <<connVars, execVars>>

(***************************************************************************)
(* Connection._cache_key: "%s__%s__" % (self.host, self.user)              *)
(***************************************************************************)
_cache_key(h, u) == h \o <<"__">> \o u \o <<"__">>

CacheKey(c) == _cache_key(host[c], user[c])
Keys == {_cache_key(t[1], t[2]) : t \in Targets}

(***************************************************************************)
(* paramiko.HostKeys as used by the source.  An entry is                   *)
(* [h, kt, k, added]; added is the attribute _added_by_ansible_this_time   *)
(* that MyAutoAddPolicy sets on the key object.                            *)
(***************************************************************************)
RECURSIVE KeysAcc(_, _)
KeysAcc(es, acc) ==
    IF es = <<>> THEN acc
    ELSE KeysAcc(Tail(es),
                 IF \E i \in 1..Len(acc) : acc[i] = Head(es).h
                 THEN acc ELSE Append(acc, Head(es).h))

\* HostKeys.keys(): the hostnames, each once, in order of first appearance
keys(es) == KeysAcc(es, <<>>)

\* HostKeys.lookup(hostname): the entries of one hostname (a SubDict)
lookup(es, h) == SelectSeq(es, LAMBDA e : e.h = h)

HasKey(sub, kt) == \E i \in 1..Len(sub) : sub[i].kt = kt

\* SubDict.__getitem__(keytype): the key of the first entry of that type
GetKey(sub, kt) == Head(SelectSeq(sub, LAMBDA e : e.kt = kt))

\* HostKeys.add(hostname, keytype, key): replace the key in place, or append
add(es, h, kt, k, flag) ==
    IF HasKey(lookup(es, h), kt)
    THEN LET i == CHOOSE j \in 1..Len(es) :
                    /\ es[j].h = h /\ es[j].kt = kt
                    /\ \A m \in 1..(j-1) : ~(es[m].h = h /\ es[m].kt = kt)
         IN [es EXCEPT ![i].k = k, ![i].added = flag]
    ELSE Append(es, [h |-> h, kt |-> kt, k |-> k, added |-> flag])

\* HostKeys.__setitem__(hostname, entry): per key type of entry, replace the
\* key object of every matching entry, or append a new entry
RECURSIVE SetItemAcc(_, _, _, _)
SetItemAcc(es, h, sub, todo) ==
    IF todo = <<>> THEN es
    ELSE LET kt == Head(todo).kt
             val == GetKey(sub, kt)
             es2 == IF HasKey(lookup(es, h), kt)
                    THEN [i \in 1..Len(es) |->
                            IF es[i].h = h /\ es[i].kt = kt
                            THEN [es[i] EXCEPT !.k = val.k, !.added = val.added]
                            ELSE es[i]]
                    ELSE Append(es, [h |-> h, kt |-> kt, k |-> val.k,
                                     added |-> val.added])
         IN SetItemAcc(es2, h, sub, Tail(todo))

SetItem(es, h, sub) == SetItemAcc(es, h, sub, sub)

RECURSIVE UpdateAcc(_, _, _)
UpdateAcc(es, other, hs) ==
    IF hs = <<>> THEN es
    ELSE UpdateAcc(SetItem(es, Head(hs), lookup(other, Head(hs))), other, Tail(hs))

\* self.ssh._host_keys.update(self.ssh._system_host_keys):
\* DictMixin.update, self[hostname] = other[hostname] per hostname of other
update(es, other) == UpdateAcc(es, other, keys(other))

\* HostKeyEntry.from_line
FromLine(l) == [h |-> l.h, kt |-> l.kt, k |-> l.k, added |-> FALSE]

\* "%s %s %s\n" % (hostname, keytype, key.get_base64())
ToLine(h, kt, key) == [h |-> h, kt |-> kt, k |-> key.k]

\* HostKeys.load(filename): the entries of the file's lines are appended.
\* An entry equal to one already held changes no result of keys, lookup or
\* update, which take the first match, so it is not kept a second time.
RECURSIVE load(_, _)
load(es, f) ==
    IF f = <<>> THEN es
    ELSE load(IF \E i \in 1..Len(es) : es[i] = FromLine(Head(f))
              THEN es ELSE Append(es, FromLine(Head(f))),
              Tail(f))

\* for hostname, keys in host_keys.iteritems(): for keytype, key in
\* keys.iteritems(): the triples in the order the two loops visit them
RECURSIVE ItemsAcc(_, _)
ItemsAcc(es, hs) ==
    IF hs = <<>> THEN <<>>
    ELSE LET sub == lookup(es, Head(hs))
         IN [i \in 1..Len(sub) |->
                [h |-> Head(hs), kt |-> sub[i].kt, key |-> GetKey(sub, sub[i].kt)]]
            \o ItemsAcc(es, Tail(hs))

iteritems(es) == ItemsAcc(es, keys(es))

\* getattr(key, '_added_by_ansible_this_time', False)
added_this_time(key) == key.added

added_any_always(es) == TRUE

\* _save_ssh_host_keys, lines 224-233: whether any key was added this time
added_any(es) ==
    \E i \in 1..Len(iteritems(es)) : added_this_time(iteritems(es)[i].key)

Lines(it) == [i \in 1..Len(it) |-> ToLine(it[i].h, it[i].kt, it[i].key)]

\* lines 240-245: the first pass writes the keys not added this time
OldLines(es) == Lines(SelectSeq(iteritems(es), LAMBDA x : ~added_this_time(x.key)))

\* lines 246-250: the second pass writes the keys added this time
NewLines(es) == Lines(SelectSeq(iteritems(es), LAMBDA x : added_this_time(x.key)))

\* _save_ssh_host_keys, lines 239-251: the lines written, in order
SaveLines(es) == OldLines(es) \o NewLines(es)


(***************************************************************************)
(* Sets of values.                                                         *)
(***************************************************************************)
RECURSIVE SeqsOver(_, _)
SeqsOver(S, n) ==
    IF n = 0 THEN {<<>>}
    ELSE LET shorter == SeqsOver(S, n - 1)
         IN shorter \cup
            {Append(q, x) : q \in {r \in shorter : Len(r) = n - 1}, x \in S}

Distinct(q) == \A i, j \in 1..Len(q) : i # j => q[i] # q[j]

\* the known_hosts files a run may start from
InitFiles == {q \in SeqsOver(FileLines, MaxFile) : Distinct(q)}

Range(q) == {q[i] : i \in 1..Len(q)}

IsPrefix(p, q) == Len(p) <= Len(q) /\ \A i \in 1..Len(p) : p[i] = q[i]

(***************************************************************************)
(* The state after the module is imported and the Connection objects are   *)
(* constructed (lines 64-65, 70-79).                                       *)
(***************************************************************************)
\* known_hosts files that differ in what they hold for host a's ssh-rsa key
FewFiles == {q \in SeqsOver({l \in FileLines : l.h = HostA /\ l.kt = "ssh-rsa"}, 1) : TRUE}

\* persist: who ran lines 268-271 last, on which SSHClient, the file as it
\* was then, the lines of the keys tagged as added before the merge, whether
\* open(filename, 'w') was called and whether the write was completed
NoPersist == [by |-> "none", sid |-> NoSession, before |-> <<>>, accepted |-> <<>>,
              opened |-> FALSE, wrote |-> FALSE]

\* exec_command has raised nothing
NoError == [msg |-> "none", out |-> <<>>]

\* no exec_command is called
NoExec ==
    /\ run = [sudo |-> FALSE, sudoable |-> FALSE, sudo_pass |-> FALSE]
    /\ remote = <<>>
    /\ ending = "close"
    /\ scan = "IDLE"
    /\ sudo_output = <<>>
    /\ pty = FALSE
    /\ reads = 0
    /\ sent = <<>>
    /\ raised = NoError

\* a run: the Connection objects it constructs, the (host, user) of c2, the
\* known_hosts file and the setting of host key checking it starts with
Scenario(conns, targets2, files, checks) ==
    /\ live = conns
    /\ \E t2 \in targets2 :
          /\ host = [c \in Conns |->
                        IF c = "c2" THEN t2[1] ELSE IF c = "c3" THEN HostAB ELSE HostA]
          /\ user = [c \in Conns |->
                        IF c = "c2" THEN t2[2] ELSE IF c = "c3" THEN UserC ELSE UserBC]
    /\ ssh = [c \in Conns |-> NoSession]
    /\ keyfile = [c \in Conns |-> FALSE]
    /\ sshCache = [p \in Procs |-> [k \in Keys |-> NoSession]]
    /\ sess = <<>>
    /\ file \in files
    /\ hkc \in checks
    /\ lockHolder = NoLock
    /\ pc = [c \in Conns |-> "idle"]
    /\ ret = <<"none", "none", "ok">>
    /\ fresh = [c \in Conns |-> FALSE]
    /\ since = [p \in Procs |-> [k \in Keys |-> {}]]
    /\ file0 = file
    /\ persist = NoPersist
    /\ sftp = [c \in Conns |-> NoChannel]
    /\ sftpCache = [p \in Procs |-> [k \in Keys |-> NoChannel]]
    /\ chans = <<>>

(***************************************************************************)
(* Connection.connect, lines 84-90, and _connect_uncached, lines 92-132.   *)
(***************************************************************************)
CachedNever(p, k) == FALSE

\* cache_key in SSH_CONNECTION_CACHE (line 86)
Cached(p, k) == sshCache[p][k] # NoSession

\* ssh.load_system_host_keys() when C.HOST_KEY_CHECKING (lines 104-105)
SystemKeysAtConnect == IF hkc THEN load(<<>>, file) ELSE <<>>

\* SSHClient.connect's check of the server's key against the known keys:
\* "known", "missing" (the policy is asked, line 106) or "bad"
HostKeyCheck(sys, h) ==
    LET sub == lookup(sys, h)
        sk == ServerKey(h)
    IN IF ~HasKey(sub, sk.kt) THEN "missing"
       ELSE IF GetKey(sub, sk.kt).k = sk.k THEN "known" ELSE "bad"

\* MyAutoAddPolicy.missing_host_key (lines 52-59): the key is tagged and
\* added to client._host_keys; _host_keys_filename is None, nothing is saved
missing_host_key(hk, h) ==
    add(hk, h, ServerKey(h).kt, ServerKey(h).k, TRUE)

\* what ssh.connect (lines 118-120) may end with
Outcomes(h) ==
    IF HostKeyCheck(SystemKeysAtConnect, h) = "bad"
    THEN {"BadHostKeyException"}
    ELSE {"ok", "AuthenticationException"}

RaisedNever(outcome) == FALSE

\* except Exception, e: ... raise (lines 121-130)
Raised(outcome) == outcome # "ok"

\* the SSHClient that _connect_uncached has built when ssh.connect ends
NewClient(c, outcome) ==
    LET sys == SystemKeysAtConnect
    IN [proc |-> ProcOf(c),
        host |-> host[c],
        user |-> user[c],
        state |-> IF outcome = "ok" THEN "open" ELSE "new",
        sys |-> sys,
        hk |-> IF HostKeyCheck(sys, host[c]) = "missing"
               THEN missing_host_key(<<>>, host[c]) ELSE <<>>,
        accepted |-> IF HostKeyCheck(sys, host[c]) = "missing"
                     THEN {ToLine(host[c], ServerKey(host[c]).kt, ServerKey(host[c]))}
                     ELSE {},
        saved |-> FALSE]

\* lines 85-87: the lookup; a hit returns at once
ConnectLookup(c) ==
    /\ pc[c] = "idle"
    /\ LET p == ProcOf(c)
           k == CacheKey(c)
       IN IF Cached(p, k)
          THEN /\ ssh' = [ssh EXCEPT ![c] = sshCache[p][k]]
               /\ ret' = <<c, "connect", "ok">>
               /\ fresh' = [fresh EXCEPT ![c] = TRUE]
               /\ pc' = pc
          ELSE /\ pc' = [pc EXCEPT ![c] = "connecting"]
               /\ UNCHANGED <<ssh, ret, fresh>>
    /\ UNCHANGED execVars
    /\ UNCHANGED xferVars
    /\ UNCHANGED <<live, host, user, keyfile, sshCache, sess, file, hkc,
                   lockHolder, since, file0, persist>>

\* line 89: _connect_uncached() and, when it returns, the two assignments
ConnectBuild(c) ==
    /\ pc[c] = "connecting"
    /\ keyfile' = [keyfile EXCEPT ![c] = TRUE]
    /\ pc' = [pc EXCEPT ![c] = "idle"]
    /\ \E outcome \in Outcomes(host[c]) :
          IF Raised(outcome)
          THEN /\ ret' = <<c, "connect", "AnsibleConnectionFailed">>
               /\ UNCHANGED <<ssh, sshCache, sess, fresh, since>>
          ELSE /\ Len(sess) < MaxSessions
               /\ LET sid == Len(sess) + 1
                      p == ProcOf(c)
                      k == CacheKey(c)
                  IN /\ sess' = Append(sess, NewClient(c, outcome))
                     /\ ssh' = [ssh EXCEPT ![c] = sid]
                     /\ sshCache' = [sshCache EXCEPT ![p][k] = sid]
                     /\ since' = [since EXCEPT ![p][k] = @ \cup {sid}]
               /\ ret' = <<c, "connect", "ok">>
               /\ fresh' = [fresh EXCEPT ![c] = TRUE]
    /\ UNCHANGED execVars
    /\ UNCHANGED xferVars
    /\ UNCHANGED <<live, host, user, file, hkc, lockHolder, file0, persist>>

(***************************************************************************)
(* Connection.close, lines 253-279, with _save_ssh_host_keys, 218-251.     *)
(***************************************************************************)
\* SSH_CONNECTION_CACHE.pop(cache_key, None) (line 256)
pop(cache, p, k) == [cache EXCEPT ![p][k] = NoSession]

popSftpNot(cache, p, k) == cache

\* SFTP_CONNECTION_CACHE.pop(cache_key, None) (line 257)
popSftp(cache, p, k) == [cache EXCEPT ![p][k] = NoChannel]

\* what open(path, 'w') may end with: IOError when the directory does not
\* exist or the file may not be written
OpenForWrite == {"ok", "IOError"}

\* lines 255-263: the pops, self.sftp.close(), then self.keyfile (AttributeError when
\* _connect_uncached never ran) and open(lockfile, 'w')
CloseBegin(c) ==
    /\ pc[c] = "idle"
    /\ sshCache' = pop(sshCache, ProcOf(c), CacheKey(c))
    /\ sftpCache' = popSftp(sftpCache, ProcOf(c), CacheKey(c))
    /\ chans' = IF sftp[c] # NoChannel
                THEN [chans EXCEPT ![sftp[c]].state = "closed"] ELSE chans
    /\ fresh' = [d \in Conns |->
                    IF ProcOf(d) = ProcOf(c) /\ CacheKey(d) = CacheKey(c)
                    THEN FALSE ELSE fresh[d]]
    /\ since' = [since EXCEPT ![ProcOf(c)][CacheKey(c)] = {}]
    /\ IF ~keyfile[c]
       THEN /\ ret' = <<c, "close", "AttributeError">>
            /\ pc' = pc
       ELSE \E opened \in OpenForWrite :
               IF opened = "IOError"
               THEN /\ ret' = <<c, "close", "IOError">>
                    /\ pc' = pc
               ELSE /\ pc' = [pc EXCEPT ![c] = "locking"]
                    /\ ret' = ret
    /\ UNCHANGED execVars
    /\ UNCHANGED sftp
    /\ UNCHANGED <<live, host, user, ssh, keyfile, sess, file, hkc,
                   lockHolder, file0, persist>>

LockFreeAlways == TRUE

\* fcntl.flock(KEY_LOCK, fcntl.LOCK_EX) returns when no one holds the lock
LockFree == lockHolder = NoLock

\* line 264
CloseLock(c) ==
    /\ pc[c] = "locking"
    /\ LockFree
    /\ lockHolder' = c
    /\ pc' = [pc EXCEPT ![c] = "merging"]
    /\ UNCHANGED execVars
    /\ UNCHANGED xferVars
    /\ UNCHANGED <<live, host, user, ssh, keyfile, sshCache, sess, file,
                   hkc, ret, fresh, since, file0, persist>>

\* lines 268-271 up to open(filename, 'w') at line 239.  An exception
\* (self.ssh is None, or the file cannot be opened) is caught at line 272.
CloseMerge(c) ==
    /\ pc[c] = "merging"
    /\ IF ssh[c] = NoSession
       THEN /\ pc' = [pc EXCEPT ![c] = "unlocking"]
            /\ persist' = [NoPersist EXCEPT !.by = c, !.before = file]
            /\ UNCHANGED <<sess, file>>
       ELSE LET s == ssh[c]
                sys == load(sess[s].sys, file)
                hk == update(sess[s].hk, sys)
            IN /\ persist' = [by |-> c, sid |-> s, before |-> file,
                              accepted |-> NewLines(sess[s].hk),
                              opened |-> added_any(hk), wrote |-> FALSE]
               /\ IF ~added_any(hk)
                  THEN /\ pc' = [pc EXCEPT ![c] = "unlocking"]
                       /\ sess' = [sess EXCEPT ![s].sys = sys, ![s].hk = hk,
                                               ![s].saved = TRUE]
                       /\ file' = file
                  ELSE /\ sess' = [sess EXCEPT ![s].sys = sys, ![s].hk = hk]
                       /\ \E opened \in OpenForWrite :
                             IF opened = "IOError"
                             THEN /\ pc' = [pc EXCEPT ![c] = "unlocking"]
                                  /\ file' = file
                             ELSE /\ pc' = [pc EXCEPT ![c] = "writing"]
                                  /\ file' = <<>>
    /\ UNCHANGED execVars
    /\ UNCHANGED xferVars
    /\ UNCHANGED <<live, host, user, ssh, keyfile, sshCache, hkc,
                   lockHolder, ret, fresh, since, file0>>

\* lines 240-251: the two passes of writes, and f.close()
CloseWrite(c) ==
    /\ pc[c] = "writing"
    /\ file' = SaveLines(sess[ssh[c]].hk)
    /\ sess' = [sess EXCEPT ![ssh[c]].saved = TRUE]
    /\ persist' = [persist EXCEPT !.wrote = TRUE]
    /\ pc' = [pc EXCEPT ![c] = "unlocking"]
    /\ UNCHANGED execVars
    /\ UNCHANGED xferVars
    /\ UNCHANGED <<live, host, user, ssh, keyfile, sshCache, hkc,
                   lockHolder, ret, fresh, since, file0>>

\* lines 277-279: the unlock, then self.ssh.close()
CloseEnd(c) ==
    /\ pc[c] = "unlocking"
    /\ lockHolder' = NoLock
    /\ pc' = [pc EXCEPT ![c] = "idle"]
    /\ IF ssh[c] = NoSession
       THEN /\ ret' = <<c, "close", "AttributeError">>
            /\ sess' = sess
       ELSE /\ ret' = <<c, "close", "ok">>
            /\ sess' = [sess EXCEPT ![ssh[c]].state = "closed"]
    /\ UNCHANGED execVars
    /\ UNCHANGED xferVars
    /\ UNCHANGED <<live, host, user, ssh, keyfile, sshCache, file, hkc,
                   fresh, since, file0, persist>>

(***************************************************************************)
(* Connection.exec_command, lines 134-182.  The bytes of the channel are   *)
(* tokens: the prompt that make_sudo_cmd returns is "p" "w", the text      *)
(* 'unknown user' is "u" "n".                                              *)
(***************************************************************************)
bufsize == 4096

Bytes == {"p", "w", "u", "n", "x"}
prompt == <<"p", "w">>
unknown_user == <<"u", "n">>
secret == <<"sudo_pass", "\n">>

Min(a, b) == IF a < b THEN a ELSE b

contains(t, q) ==
    \E i \in 0..(Len(q) - Len(t)) : SubSeq(q, i + 1, i + Len(t)) = t

endswith_anywhere(q, t) == contains(t, q)

\* str.endswith
endswith(q, t) ==
    /\ Len(t) <= Len(q)
    /\ SubSeq(q, Len(q) - Len(t) + 1, Len(q)) = t

in_never(t, q) == FALSE

\* 'unknown user' in sudo_output (line 169)
in(t, q) == contains(t, q)

DirectNever(r) == FALSE

\* if not self.runner.sudo or not sudoable (line 146)
Direct(r) == ~r.sudo \/ ~r.sudoable

HasSecretAlways(r) == TRUE

\* if self.runner.sudo_pass (line 165)
HasSecret(r) == r.sudo_pass

\* an AnsibleError with a message that carries no output
Error(m) == [msg |-> m, out |-> <<>>]

TimeoutErrorBare(out) == [msg |-> "ssh timed out waiting for sudo", out |-> <<>>]

\* AnsibleError('ssh timed out waiting for sudo.\n' + sudo_output) (line 178)
TimeoutError(out) == [msg |-> "ssh timed out waiting for sudo", out |-> out]

\* the arguments and the remote side of a call
ExecCall ==
    /\ run \in [sudo : BOOLEAN, sudoable : BOOLEAN, sudo_pass : BOOLEAN]
    /\ remote \in SeqsOver(Bytes, MaxStream)
    /\ ending \in {"close", "stall"}
    /\ scan = "IDLE"
    /\ sudo_output = <<>>
    /\ pty = FALSE
    /\ reads = 0
    /\ sent = <<>>
    /\ raised = NoError

\* one call of exec_command, no Connection object inside connect or close
InitExec ==
    /\ Scenario({}, {<<HostA, UserBC>>}, {<<>>}, {TRUE})
    /\ ExecCall

\* lines 138-166: open_session, the choice of the mode, get_pty,
\* chan.exec_command and the first test of the loop
ExecStart ==
    /\ scan = "IDLE"
    /\ \E opened \in BOOLEAN :
          IF ~opened
          THEN /\ scan' = "OPEN_FAILED"
               /\ raised' = Error("Failed to open session")
               /\ UNCHANGED pty
          ELSE IF Direct(run)
          THEN /\ scan' = "DRAINING"
               /\ UNCHANGED <<pty, raised>>
          ELSE /\ pty' = TRUE
               /\ scan' = IF ~HasSecret(run) THEN "DRAINING"
                          ELSE IF endswith(sudo_output, prompt)
                               THEN "PROMPT_SATISFIED" ELSE "AWAITING_PROMPT"
               /\ UNCHANGED raised
    /\ UNCHANGED <<run, remote, ending, sudo_output, reads, sent>>
    /\ UNCHANGED connVars

\* lines 167-175 and the test of line 166: recv returns some of the bytes
\* the remote side sent, at most bufsize of them
ExecRecv ==
    /\ scan = "AWAITING_PROMPT"
    /\ \E n \in 1..Min(bufsize, Len(remote)) :
          LET chunk == SubSeq(remote, 1, n)
          IN /\ sudo_output' = sudo_output \o chunk
             /\ remote' = SubSeq(remote, n + 1, Len(remote))
             /\ scan' = IF endswith(sudo_output \o chunk, prompt)
                        THEN "PROMPT_SATISFIED" ELSE "AWAITING_PROMPT"
    /\ reads' = reads + 1
    /\ UNCHANGED <<run, ending, pty, sent, raised>>
    /\ UNCHANGED connVars

\* lines 167-174: recv returns '' because the remote side closed the stream
ExecRecvClosed ==
    /\ scan = "AWAITING_PROMPT"
    /\ remote = <<>> /\ ending = "close"
    /\ reads' = reads + 1
    /\ scan' = "CLOSED_EARLY"
    /\ raised' = IF in(unknown_user, sudo_output)
                 THEN Error("user does not exist")
                 ELSE Error("ssh connection closed waiting for password prompt")
    /\ UNCHANGED <<run, remote, ending, sudo_output, pty, sent>>
    /\ UNCHANGED connVars

ExecRecvBlocks == FALSE /\ UNCHANGED vars

\* lines 167, 177-178: recv raises socket.timeout, the remote side having
\* stopped sending
ExecRecvTimeout ==
    /\ scan = "AWAITING_PROMPT"
    /\ remote = <<>> /\ ending = "stall"
    /\ reads' = reads + 1
    /\ scan' = "TIMED_OUT"
    /\ raised' = TimeoutError(sudo_output)
    /\ UNCHANGED <<run, remote, ending, sudo_output, pty, sent>>
    /\ UNCHANGED connVars

\* line 176: chan.sendall(self.runner.sudo_pass + '\n')
ExecSend ==
    /\ scan = "PROMPT_SATISFIED"
    /\ sent' = sent \o secret
    /\ scan' = "DRAINING"
    /\ UNCHANGED <<run, remote, ending, sudo_output, pty, reads, raised>>
    /\ UNCHANGED connVars

\* lines 180-182: stdout and stderr are read to their end, then the exit status
ExecDrain ==
    /\ scan = "DRAINING"
    /\ ending = "close"
    /\ scan' = "DONE"
    /\ remote' = <<>>
    /\ UNCHANGED <<run, ending, sudo_output, pty, reads, sent, raised>>
    /\ UNCHANGED connVars

\* lines 180-182: a read of the drain raises socket.timeout, the remote side
\* having stopped sending without closing; no handler is around these lines
ExecDrainTimeout ==
    /\ scan = "DRAINING"
    /\ ending = "stall"
    /\ scan' = "ABORTED"
    /\ raised' = Error("socket.timeout")
    /\ UNCHANGED <<run, remote, ending, sudo_output, pty, reads, sent>>
    /\ UNCHANGED connVars

NextExec ==
    \/ ExecStart
    \/ ExecRecv
    \/ ExecRecvClosed
    \/ ExecRecvTimeout
    \/ ExecSend
    \/ ExecDrain
    \/ ExecDrainTimeout

(***************************************************************************)
(* Connection.put_file, lines 184-196, _connect_sftp, lines 198-204, and   *)
(* fetch_file, lines 206-216.  Each call is one step.                      *)
(***************************************************************************)
MissingLocalNever(exists) == FALSE

\* if not os.path.exists(in_path) (line 187)
MissingLocal(exists) == ~exists

\* what ssh.open_sftp() may end with; it raises on a missing or closed session
OpenSftp(usable) == IF usable THEN {"ok", "fail"} ELSE {"fail"}

\* what sftp.put and sftp.get may end with
Transfer == {"ok", "IOError"}

\* the result of put_file after sftp.put (lines 193-196)
PutRet(c, t) ==
    <<c, "put_file", IF t = "ok" THEN "ok" ELSE "failed to transfer file">>

\* the result of fetch_file after sftp.get (lines 213-216)
FetchRet(c, t) ==
    <<c, "fetch_file", IF t = "ok" THEN "ok" ELSE "failed to transfer file">>

\* put_file of a local path that exists or not
PutFileOf(c, exists) ==
    /\ pc[c] = "idle"
    /\ IF MissingLocal(exists)
       THEN /\ ret' = <<c, "put_file", "AnsibleFileNotFound">>
            /\ UNCHANGED <<sftp, chans>>
       ELSE \E opened \in OpenSftp(ssh[c] # NoSession /\ sess[ssh[c]].state = "open") :
               IF opened = "fail"
               THEN /\ ret' = <<c, "put_file", "failed to open a SFTP connection">>
                    /\ UNCHANGED <<sftp, chans>>
               ELSE /\ Len(chans) < MaxChannels
                    /\ chans' = Append(chans, [sid |-> ssh[c], state |-> "open"])
                    /\ sftp' = [sftp EXCEPT ![c] = Len(chans) + 1]
                    /\ \E t \in Transfer : ret' = PutRet(c, t)
    /\ UNCHANGED execVars
    /\ UNCHANGED <<live, host, user, ssh, keyfile, sshCache, sess, file, hkc,
                   lockHolder, pc, fresh, since, file0, persist, sftpCache>>

\* lines 184-196
PutFile(c) == \E exists \in BOOLEAN : PutFileOf(c, exists)

\* cache_key in SFTP_CONNECTION_CACHE (line 200)
CachedSftp(p, k) == sftpCache[p][k] # NoChannel

\* lines 206-216 with _connect_sftp; on a miss self.connect() runs first
\* (line 203), which returns the cached session or builds one
FetchFile(c) ==
    /\ pc[c] = "idle"
    /\ LET p == ProcOf(c)
           k == CacheKey(c)
       IN IF CachedSftp(p, k)
          THEN /\ sftp' = [sftp EXCEPT ![c] = sftpCache[p][k]]
               /\ \E t \in Transfer : ret' = FetchRet(c, t)
               /\ UNCHANGED <<ssh, keyfile, sshCache, sess, fresh, since,
                              sftpCache, chans>>
          ELSE \E outcome \in (IF Cached(p, k) THEN {"hit"} ELSE Outcomes(host[c])) :
                 /\ keyfile' = IF outcome = "hit" THEN keyfile
                               ELSE [keyfile EXCEPT ![c] = TRUE]
                 /\ IF outcome # "hit" /\ Raised(outcome)
                    THEN /\ ret' = <<c, "fetch_file", "failed to open a SFTP connection">>
                         /\ UNCHANGED <<ssh, sshCache, sess, fresh, since,
                                        sftp, sftpCache, chans>>
                    ELSE LET hit == outcome = "hit"
                             sid == IF hit THEN sshCache[p][k] ELSE Len(sess) + 1
                         IN /\ hit \/ Len(sess) < MaxSessions
                            /\ sess' = IF hit THEN sess
                                       ELSE Append(sess, NewClient(c, outcome))
                            /\ ssh' = [ssh EXCEPT ![c] = sid]
                            /\ sshCache' = [sshCache EXCEPT ![p][k] = sid]
                            /\ since' = IF hit THEN since
                                        ELSE [since EXCEPT ![p][k] = @ \cup {sid}]
                            /\ fresh' = [fresh EXCEPT ![c] = TRUE]
                            /\ \E opened \in OpenSftp(sess'[sid].state = "open") :
                                  IF opened = "fail"
                                  THEN /\ ret' = <<c, "fetch_file",
                                                   "failed to open a SFTP connection">>
                                       /\ UNCHANGED <<sftp, sftpCache, chans>>
                                  ELSE /\ Len(chans) < MaxChannels
                                       /\ chans' = Append(chans, [sid |-> sid,
                                                                  state |-> "open"])
                                       /\ sftpCache' = [sftpCache EXCEPT
                                                           ![p][k] = Len(chans) + 1]
                                       /\ sftp' = [sftp EXCEPT ![c] = Len(chans) + 1]
                                       /\ \E t \in Transfer : ret' = FetchRet(c, t)
    /\ UNCHANGED execVars
    /\ UNCHANGED <<live, host, user, file, hkc, lockHolder, pc, file0, persist>>

\* no other Connection is inside a call
Alone(c) == \A d \in Conns \ {c} : pc[d] = "idle"

Next ==
    \/ \E c \in live : Alone(c) /\ ConnectLookup(c)
    \/ \E c \in live : Alone(c) /\ ConnectBuild(c)
    \/ \E c \in live : Alone(c) /\ CloseBegin(c)
    \/ \E c \in live : Alone(c) /\ CloseLock(c)
    \/ \E c \in live : Alone(c) /\ CloseMerge(c)
    \/ \E c \in live : Alone(c) /\ CloseWrite(c)
    \/ \E c \in live : Alone(c) /\ CloseEnd(c)

NextConc ==
    \/ \E c \in live : ConnectLookup(c)
    \/ \E c \in live : ConnectBuild(c)
    \/ \E c \in live : CloseBegin(c)
    \/ \E c \in live : CloseLock(c)
    \/ \E c \in live : CloseMerge(c)
    \/ \E c \in live : CloseWrite(c)
    \/ \E c \in live : CloseEnd(c)

\* one Connection object and any known_hosts file, or two Connection objects
\* of one process; one call at a time
Init ==
    /\ \/ Scenario({"c1"}, {<<HostA, UserBC>>}, InitFiles, BOOLEAN)
       \/ Scenario({"c1", "c2"}, Targets, FewFiles, BOOLEAN)
    /\ NoExec

\* two workers of one process, or two processes that share known_hosts
InitConc ==
    /\ \/ Scenario({"c1", "c2"}, Targets, {<<>>}, {TRUE})
       \/ Scenario({"c1", "c3"}, {<<HostA, UserBC>>}, FewFiles, BOOLEAN)
    /\ NoExec

Spec == Init /\ [][Next]_vars

\* one Connection object that connects, transfers files, runs a direct
\* command and closes, one call at a time; or one call of exec_command
InitXfer ==
    \/ /\ Scenario({"c1"}, {<<HostA, UserBC>>}, {<<>>}, BOOLEAN)
       /\ NoExec
    \/ InitExec

NextXfer ==
    \/ \E c \in live : Alone(c) /\ ConnectLookup(c)
    \/ \E c \in live : Alone(c) /\ ConnectBuild(c)
    \/ \E c \in live : Alone(c) /\ CloseBegin(c)
    \/ \E c \in live : Alone(c) /\ CloseLock(c)
    \/ \E c \in live : Alone(c) /\ CloseMerge(c)
    \/ \E c \in live : Alone(c) /\ CloseWrite(c)
    \/ \E c \in live : Alone(c) /\ CloseEnd(c)
    \/ \E c \in live : Alone(c) /\ PutFile(c)
    \/ \E c \in live : Alone(c) /\ FetchFile(c)
    \/ ExecStart
    \/ ExecRecv
    \/ ExecRecvClosed
    \/ ExecRecvTimeout
    \/ ExecSend
    \/ ExecDrain
    \/ ExecDrainTimeout

SpecXfer == InitXfer /\ [][NextXfer]_vars

\* one call of exec_command
SpecExec == InitExec /\ [][NextExec]_vars

\* a call of exec_command in which every read ends: with bytes, with '' or
\* with socket.timeout
SpecExecFair == InitExec /\ [][NextExec]_vars /\ WF_vars(NextExec)

SpecConc == InitConc /\ [][NextConc]_vars

(***************************************************************************)
(* Properties.                                                             *)
(***************************************************************************)
Idle == \A c \in Conns : pc[c] = "idle"

\* C1: when connect() has returned to a Connection since the last close()
\* for its cache key, the Connection holds the one session built for that
\* key since that close(): callers that connect with no close() in between
\* share one session and one handshake, and a connect() after a close()
\* gets a session built after it.
C1_OneSessionPerKey ==
    \A c \in Conns :
        fresh[c] =>
            /\ ssh[c] \in since[ProcOf(c)][CacheKey(c)]
            /\ Cardinality(since[ProcOf(c)][CacheKey(c)]) = 1

\* two Connection objects share the second session, built after the first
\* one was closed
C1_Witness ==
    \E c, d \in Conns :
        /\ c # d /\ fresh[c] /\ fresh[d]
        /\ ssh[c] = ssh[d] /\ ssh[c] = 2
        /\ sess[1].state = "closed"

\* C2: however the workers' connect() calls interleave, at most one
\* handshake is performed per cache key between two close() calls.
C2_AtMostOneHandshake ==
    \A p \in Procs, k \in Keys : Cardinality(since[p][k]) <= 1

\* C3: when no call is running, known_hosts holds every line it held at the
\* start and the line of every key that a session accepted and whose
\* persist step ran to its end.
C3_NoKeyLost ==
    Idle =>
        /\ Range(file0) \subseteq Range(file)
        /\ \A s \in 1..Len(sess) :
              sess[s].saved => sess[s].accepted \subseteq Range(file)

\* C4: a completed rewrite leaves the file as it was before, followed by
\* the lines of the keys added this time.
C4_AppendedAtEnd ==
    persist.wrote => file = persist.before \o NewLines(sess[persist.sid].hk)

\* C5: when the session holds no key added this time, the persist step
\* does not open known_hosts for writing and leaves it as it was.
C5_NoNewKeyNoWrite ==
    (persist.sid # NoSession /\ persist.accepted = <<>>) =>
        /\ ~persist.opened
        /\ ~persist.wrote
        /\ file = persist.before
        /\ pc[persist.by] # "writing"

\* a close() returned after its persist step found no added key, with a
\* non-empty known_hosts reloaded and merged into the session's keys
C5_Witness ==
    /\ persist.sid # NoSession /\ persist.accepted = <<>>
    /\ persist.before # <<>>
    /\ sess[persist.sid].hk # <<>>
    /\ ret = <<persist.by, "close", "ok">>

\* C6: a Connection holds the lock exactly while it is between line 264
\* and line 277, so no two are there together and none leaves holding it.
C6_LockHeldInside ==
    \A c \in Conns :
        (pc[c] \in {"merging", "writing", "unlocking"}) <=> (lockHolder = c)

\* one Connection is past an exception caught inside the sequence and still
\* holds the lock, while another waits for it
C6_Witness ==
    \E c, d \in Conns :
        /\ c # d
        /\ pc[c] = "unlocking" /\ ssh[c] = NoSession
        /\ pc[d] = "locking"

\* C7: close() never ends with the IOError of a trust file or lock file.
C7_PersistErrorSuppressed ==
    ~(ret[2] = "close" /\ ret[3] = "IOError")

\* C8: close() of a Connection that holds a session, with the lock file
\* openable, returns without error, with the cache entry removed and the
\* session closed.
C8_CloseTearsDown ==
    \A c \in Conns :
        (Idle /\ ret[1] = c /\ ret[2] = "close" /\ ret[3] # "IOError"
              /\ ssh[c] # NoSession) =>
            /\ ret[3] = "ok"
            /\ ~Cached(ProcOf(c), CacheKey(c))
            /\ sess[ssh[c]].state = "closed"

\* C9: the step that ends connect() after a miss either returns a connected
\* session, registered under the key, or raises AnsibleConnectionFailed
\* with the cache as it was: without an entry for the key.
C9_FailedHandshakeNotCached ==
    [][\A c \in Conns :
          (pc[c] = "connecting" /\ pc'[c] = "idle") =>
              \/ /\ ret' = <<c, "connect", "ok">>
                 /\ sess'[ssh'[c]].state = "open"
                 /\ sshCache'[ProcOf(c)][CacheKey(c)] = ssh'[c]
              \/ /\ ret' = <<c, "connect", "AnsibleConnectionFailed">>
                 /\ sshCache' = sshCache
                 /\ sshCache[ProcOf(c)][CacheKey(c)] = NoSession
                 /\ ssh' = ssh /\ sess' = sess]_vars

\* a connect() has failed and its key has no cache entry
C9_Witness ==
    /\ ret[2] = "connect" /\ ret[3] = "AnsibleConnectionFailed"
    /\ sshCache[ProcOf(ret[1])][CacheKey(ret[1])] = NoSession
    /\ Idle

\* C10: after every read of the prompt loop, whatever bytes it returned,
\* the call has left the loop exactly if the accumulated output ends with
\* the prompt: it waits on while the prompt is incomplete or is followed by
\* further bytes.
C10_SatisfiedIffTrailingPrompt ==
    LET trailing == \E i \in 0..Len(sudo_output) :
                        sudo_output = SubSeq(sudo_output, 1, i) \o prompt
    IN /\ scan = "AWAITING_PROMPT" => ~trailing
       /\ scan = "PROMPT_SATISFIED" => trailing

\* the loop waits on after a read that returned the prompt followed by a
\* further byte
C10_Witness ==
    /\ scan = "AWAITING_PROMPT"
    /\ reads = 1
    /\ sudo_output = prompt \o <<"x">>

\* C11: when a read of the prompt loop returns nothing, the call raises
\* "user does not exist" if 'unknown user' occurs in the output accumulated
\* so far and the closed-while-waiting error otherwise, and the secret has
\* not been written.
C11_ClosedEarlyError ==
    LET unknown == \E i \in 1..Len(sudo_output) :
                       /\ i < Len(sudo_output)
                       /\ sudo_output[i] = unknown_user[1]
                       /\ sudo_output[i + 1] = unknown_user[2]
    IN scan = "CLOSED_EARLY" =>
          /\ run.sudo /\ run.sudoable /\ run.sudo_pass
          /\ sent = <<>>
          /\ raised.msg = IF unknown THEN "user does not exist"
                          ELSE "ssh connection closed waiting for password prompt"

\* the stream closed after output that holds 'unknown user'
C11_Witness ==
    /\ scan = "CLOSED_EARLY"
    /\ sudo_output = <<"x">> \o unknown_user
    /\ raised.msg = "user does not exist"

\* C12: a read of the prompt loop that times out ends the call with the
\* timeout error, which carries the output accumulated up to that read, and
\* the secret is not written.
C12_TimeoutCarriesOutput ==
    [][(scan = "AWAITING_PROMPT" /\ scan' = "TIMED_OUT") =>
          /\ raised'.msg = "ssh timed out waiting for sudo"
          /\ raised'.out = sudo_output
          /\ sudo_output' = sudo_output
          /\ sent' = <<>>]_vars

\* the read timed out after some output had arrived
C12_Witness ==
    /\ scan = "TIMED_OUT"
    /\ sudo_output = <<"x", "p">>
    /\ raised.out = <<"x", "p">>

\* C13: the secret and the line end are written at most once, only by a call
\* with sudo and a sudo_pass, on leaving the prompt loop and before the
\* drain; a sudo call without sudo_pass reads nothing in the loop, writes
\* nothing and goes from the start to the drain.
C13_SecretWrittenOnce ==
    [][/\ sent' # sent =>
             /\ run.sudo /\ run.sudoable /\ run.sudo_pass
             /\ scan = "PROMPT_SATISFIED" /\ scan' = "DRAINING"
             /\ sent = <<>> /\ sent' = <<"sudo_pass", "\n">>
       /\ (run.sudo /\ run.sudoable /\ ~run.sudo_pass) =>
             /\ reads' = 0 /\ sent' = <<>>
             /\ scan' \in {"IDLE", "OPEN_FAILED", "DRAINING", "DONE", "ABORTED"}]_vars

\* the secret was written after the prompt arrived in two reads
C13_Witness ==
    /\ sent = <<"sudo_pass", "\n">>
    /\ reads = 2
    /\ scan = "DONE"

\* C14: a call without runner.sudo, or with sudoable false, never asks for a
\* pty, never reads in the prompt loop and never writes the secret.
C14_DirectModePlain ==
    (~run.sudo \/ ~run.sudoable) => (pty = FALSE /\ reads = 0 /\ sent = <<>>)

\* a direct call of a runner that has sudo and a sudo_pass ran to its end
C14_Witness ==
    /\ run.sudo /\ ~run.sudoable /\ run.sudo_pass
    /\ scan = "DONE"

\* C18 as stated: a call that waits for the prompt ends in DONE,
\* CLOSED_EARLY or TIMED_OUT.
C18_EndsInNamedState ==
    (scan = "AWAITING_PROMPT") ~> (scan \in {"DONE", "CLOSED_EARLY", "TIMED_OUT"})

\* C18: a call that waits for the prompt leaves the loop and ends: in
\* CLOSED_EARLY or TIMED_OUT, in DONE when the remote side closes the stream
\* after the secret, or with the socket.timeout of the drain when the remote
\* side stops sending after the secret without closing.
C18_LeavesLoopAndEnds ==
    (scan = "AWAITING_PROMPT") ~>
        \/ scan \in {"CLOSED_EARLY", "TIMED_OUT"}
        \/ scan = "DONE" /\ ending = "close" /\ sent # <<>>
        \/ scan = "ABORTED" /\ ending = "stall" /\ sent # <<>>

\* the prompt arrived, the secret was written, then the remote side stalled
C18_Witness ==
    /\ scan = "ABORTED"
    /\ sent # <<>>
    /\ raised.msg = "socket.timeout"

\* C17: between calls, a session is open exactly if it is the entry of
\* SSH_CONNECTION_CACHE of its process for some key: every cached session is
\* open and no open session is outside the cache.
C17_OpenIffCached ==
    Idle => \A s \in 1..Len(sess) :
               sess[s].state = "open" <=>
                   \E k \in Keys : sshCache[sess[s].proc][k] = s

\* C20: the session a Connection object holds was built for its own host
\* and its own user.
C20_SessionOfOwnPair ==
    \A c \in live :
        ssh[c] # NoSession =>
            /\ sess[ssh[c]].host = host[c]
            /\ sess[ssh[c]].user = user[c]

\* C15: put_file of a local path that does not exist raises
\* AnsibleFileNotFound and opens no sftp channel: the channels opened,
\* self.sftp and both caches are as before the call.
C15_MissingLocalOpensNothing ==
    [][\A c \in live :
          PutFileOf(c, FALSE) =>
              /\ ret' = <<c, "put_file", "AnsibleFileNotFound">>
              /\ UNCHANGED <<chans, sftp, sftpCache, sshCache>>]_vars

\* put_file failed on a missing local path with the session open
C15_Witness ==
    /\ ret = <<"c1", "put_file", "AnsibleFileNotFound">>
    /\ ssh["c1"] # NoSession
    /\ sess[ssh["c1"]].state = "open"
    /\ chans = <<>>

\* C16: the transfers on one session open at most one sftp channel.
C16_OneChannelPerSession ==
    \A s \in 1..Len(sess) :
        Cardinality({f \in 1..Len(chans) : chans[f].sid = s}) <= 1

=============================================================================
